---- MODULE Spec2Model ----
(***************************************************************************)
(* Local authentication and lockout state machine of the registration app. *)
(*                                                                         *)
(* StorageService (src/src/services/storage.ts) wraps two backends: the    *)
(* keychain slot holding one (username, password) pair and AsyncStorage,   *)
(* a string-valued key-value store.  AuthService (src/unnamed/part_000,    *)
(* the file services/auth.ts) orchestrates register / login / logout /     *)
(* checkAuth over it.                                                      *)
(*                                                                         *)
(* Conventions of the model                                                *)
(*  - an optional value (null, undefined, a missing key) is the empty      *)
(*    sequence None, a present value v is the one-element sequence <<v>>;  *)
(*  - a string of decimal digits is a sequence over 0..9, so that          *)
(*    Number.toString and parseInt are computed, not assumed inverse;      *)
(*  - a JSON text is the sequence of its <<key, value>> members;             *)
(*  - a backend call named in the fault set F of a handler rejects and     *)
(*    has no effect; every other backend call succeeds;                    *)
(*  - a thrown exception is carried by the field  thrown  of an operator's *)
(*    value until the enclosing catch block of the source turns it into    *)
(*    a result.                                                            *)
(***************************************************************************)
EXTENDS Integers, Sequences, FiniteSets

\* ------------------------------------------------------------------------
\* Program constants
\* ------------------------------------------------------------------------

LOCKOUT_DURATION == 15 * 60 * 1000

MAX_FAILED_ATTEMPTS == 5

MsPerSecond == 1000

SecondsPerMinute == 60

PARTIAL_REGISTRATION == "@partial_registration"

FAILED_LOGIN_ATTEMPTS == "@failed_login_attempts"

LOCKOUT_TIMESTAMP == "@lockout_timestamp"

USER_DATA == "@user_data"

STORAGE_KEYS == {PARTIAL_REGISTRATION, FAILED_LOGIN_ATTEMPTS, LOCKOUT_TIMESTAMP, USER_DATA}

KEYCHAIN_SERVICE == "VisaGeneralRegistration"

\* ------------------------------------------------------------------------
\* Bounds of the model
\* ------------------------------------------------------------------------

\* The clock runs over MaxPeriods + 1 lockout periods.
MaxPeriods == 1

\* At most MaxFaults backend calls are made to fail during one handler.
MaxFaults == 2

\* Logins are attempted while the stored failed-attempt counter is below this.
MaxAttempts == 6

\* At most MaxPending async functions of the app are suspended at a time.
MaxPending == 2

\* Offsets within a lockout period at which the clock is observed: the first
\* millisecond, one second, and the last millisecond before expiry.
Offsets == {0, 1, MsPerSecond, LOCKOUT_DURATION - 1}

Instants == {k * LOCKOUT_DURATION + o : k \in 0..MaxPeriods, o \in Offsets}

\* Time that passes between two successive clock reads of one handler (ms).
Latencies == {0, 1}

Emails == {"a@b.com", "c@d.com"}

Passwords == {"Passw0rd", "wrong"}

FirstNames == {"John"}

LastNames == {"Doe"}

PhoneNumbers == {"1234567890"}

\* A JavaScript property holding undefined.
Undefined == "\\undefined"

\* The email field of a form being edited: typed, or still undefined.
DraftEmails == {"a@b.com", Undefined}

\* ------------------------------------------------------------------------
\* Values
\* ------------------------------------------------------------------------

None == <<>>

Some(v) == <<v>>

IsSome(x) == x # None

Val(x) == x[1]

\* The quotient rounded down, as Math.floor would.
CeilDivMutant(a, b) == a \div b

\* ceil(a / b) for b > 0, as Math.ceil of the real quotient.
CeilDiv(a, b) == IF a % b = 0 THEN a \div b ELSE (a \div b) + 1

RECURSIVE NumberToString(_)
\* Number.prototype.toString of a non-negative integer: its decimal digits.
NumberToString(n) == IF n < 10 THEN <<n>> ELSE Append(NumberToString(n \div 10), n % 10)

RECURSIVE ParseInt(_)
\* parseInt(s, 10) of a non-empty digit string.
ParseInt(s) ==
  IF Len(s) = 1 THEN s[1]
  ELSE 10 * ParseInt(SubSeq(s, 1, Len(s) - 1)) + s[Len(s)]

\* The order in which the object literals of the program list their keys.
FieldOrder == <<"email", "password", "confirmPassword", "firstName", "lastName", "phoneNumber">>

RECURSIVE Members(_, _)
\* The "key":"value" members of JSON.stringify(obj) from key i of FieldOrder
\* on: a property that is missing or holds undefined is dropped.
Members(obj, i) ==
  IF i > Len(FieldOrder) THEN <<>>
  ELSE IF FieldOrder[i] \in DOMAIN obj /\ obj[FieldOrder[i]] # Undefined
       THEN <<(<<FieldOrder[i], obj[FieldOrder[i]]>>)>> \o Members(obj, i + 1)
       ELSE Members(obj, i + 1)

\* JSON.stringify of an object with string properties: the text, as the
\* sequence of its members.
JSONStringify(obj) == Members(obj, 1)

\* JSON.parse of an object text: the object with one property per member.
JSONParse(text) ==
  [k \in {text[i][1] : i \in DOMAIN text} |->
     text[CHOOSE i \in DOMAIN text :
            text[i][1] = k /\ \A j \in DOMAIN text : text[j][1] = k => j <= i][2]]

\* ------------------------------------------------------------------------
\* Backends.  A store S is [kc, as]: the keychain slot and AsyncStorage.
\* ------------------------------------------------------------------------

KC == "keychain"

FaultLabels == ({"set", "get", "reset"} \X {KC}) \cup ({"set", "get", "remove"} \X STORAGE_KEYS)

EmptyStore == [kc |-> None, as |-> [k \in STORAGE_KEYS |-> None]]

\* Keychain.setGenericPassword(username, password, {service})
KeychainSet(S, username, password, F) ==
  IF <<"set", KC>> \in F
  THEN [S |-> S, thrown |-> TRUE]
  ELSE [S |-> [S EXCEPT !.kc = Some([username |-> username, password |-> password])],
        thrown |-> FALSE]

\* Keychain.getGenericPassword({service}): the pair, or false (None).
KeychainGet(S, F) ==
  IF <<"get", KC>> \in F
  THEN [ret |-> None, thrown |-> TRUE]
  ELSE [ret |-> S.kc, thrown |-> FALSE]

\* Keychain.resetGenericPassword({service})
KeychainReset(S, F) ==
  IF <<"reset", KC>> \in F
  THEN [S |-> S, thrown |-> TRUE]
  ELSE [S |-> [S EXCEPT !.kc = None], thrown |-> FALSE]

\* AsyncStorage.setItem(key, value)
SetItem(S, key, value, F) ==
  IF <<"set", key>> \in F
  THEN [S |-> S, thrown |-> TRUE]
  ELSE [S |-> [S EXCEPT !.as[key] = Some(value)], thrown |-> FALSE]

\* AsyncStorage.getItem(key): the string, or null (None).
GetItem(S, key, F) ==
  IF <<"get", key>> \in F
  THEN [ret |-> None, thrown |-> TRUE]
  ELSE [ret |-> S.as[key], thrown |-> FALSE]

\* AsyncStorage.removeItem(key)
RemoveItem(S, key, F) ==
  IF <<"remove", key>> \in F
  THEN [S |-> S, thrown |-> TRUE]
  ELSE [S |-> [S EXCEPT !.as[key] = None], thrown |-> FALSE]

\* ------------------------------------------------------------------------
\* StorageService.  Every operator yields [S, ret]: the store after the call
\* and the value the promise resolves to.
\* ------------------------------------------------------------------------

storeCredentials(S, email, password, F) ==
  LET r == KeychainSet(S, email, password, F)
  IN  [S |-> r.S, ret |-> ~r.thrown]

getCredentials(S, F) ==
  LET r == KeychainGet(S, F)
  IN  IF ~r.thrown /\ IsSome(r.ret)
      THEN [S |-> S,
            ret |-> Some([email |-> Val(r.ret).username, password |-> Val(r.ret).password])]
      ELSE [S |-> S, ret |-> None]

clearCredentials(S, F) ==
  LET r == KeychainReset(S, F)
  IN  [S |-> r.S, ret |-> ~r.thrown]

storeUserData(S, user, F) ==
  LET r == SetItem(S, USER_DATA, JSONStringify(user), F)
  IN  [S |-> r.S, ret |-> ~r.thrown]

getUserData(S, F) ==
  LET r == GetItem(S, USER_DATA, F)
  IN  IF ~r.thrown /\ IsSome(r.ret)
      THEN [S |-> S, ret |-> Some(JSONParse(Val(r.ret)))]
      ELSE [S |-> S, ret |-> None]

clearUserData(S, F) ==
  LET r == RemoveItem(S, USER_DATA, F)
  IN  [S |-> r.S, ret |-> ~r.thrown]

storePartialRegistration(S, data, F) ==
  LET r == SetItem(S, PARTIAL_REGISTRATION, JSONStringify(data), F)
  IN  [S |-> r.S, ret |-> ~r.thrown]

getPartialRegistration(S, F) ==
  LET r == GetItem(S, PARTIAL_REGISTRATION, F)
  IN  IF ~r.thrown /\ IsSome(r.ret)
      THEN [S |-> S, ret |-> Some(JSONParse(Val(r.ret)))]
      ELSE [S |-> S, ret |-> None]

clearPartialRegistration(S, F) ==
  LET r == RemoveItem(S, PARTIAL_REGISTRATION, F)
  IN  [S |-> r.S, ret |-> ~r.thrown]

getFailedAttempts(S, F) ==
  LET r == GetItem(S, FAILED_LOGIN_ATTEMPTS, F)
  IN  IF ~r.thrown /\ IsSome(r.ret)
      THEN [S |-> S, ret |-> ParseInt(Val(r.ret))]
      ELSE [S |-> S, ret |-> 0]

\* The comparison of incrementFailedAttempts with '>' in place of '>='.
StampMutant(newAttempts) == newAttempts > MAX_FAILED_ATTEMPTS

\* newAttempts >= MAX_FAILED_ATTEMPTS
Stamp(newAttempts) == newAttempts >= MAX_FAILED_ATTEMPTS

\* t is the value of Date.now() at the stamp.
incrementFailedAttempts(S, t, F) ==
  LET attempts == getFailedAttempts(S, F).ret
      newAttempts == attempts + 1
      w1 == SetItem(S, FAILED_LOGIN_ATTEMPTS, NumberToString(newAttempts), F)
      w2 == SetItem(w1.S, LOCKOUT_TIMESTAMP, NumberToString(t), F)
  IN  IF w1.thrown THEN [S |-> w1.S, ret |-> 0]
      ELSE IF ~Stamp(newAttempts) THEN [S |-> w1.S, ret |-> newAttempts]
      ELSE IF w2.thrown THEN [S |-> w2.S, ret |-> 0]
      ELSE [S |-> w2.S, ret |-> newAttempts]

\* resetFailedAttempts without its second removeItem.
resetFailedAttemptsMutant(S, F) ==
  LET r1 == RemoveItem(S, FAILED_LOGIN_ATTEMPTS, F)
  IN  [S |-> r1.S, ret |-> ~r1.thrown]

resetFailedAttempts(S, F) ==
  LET r1 == RemoveItem(S, FAILED_LOGIN_ATTEMPTS, F)
      r2 == RemoveItem(r1.S, LOCKOUT_TIMESTAMP, F)
  IN  IF r1.thrown THEN [S |-> r1.S, ret |-> FALSE]
      ELSE [S |-> r2.S, ret |-> ~r2.thrown]

\* One call of a StorageService member and the value it returned.
Call(member, returned) == <<member, returned>>

\* The expiry test of isLockedOut with '>' in place of '>='.
LockoutExpiredMutant(timeSinceLockout) == timeSinceLockout > LOCKOUT_DURATION

\* timeSinceLockout >= LOCKOUT_DURATION
LockoutExpired(timeSinceLockout) == timeSinceLockout >= LOCKOUT_DURATION

\* t is the value of Date.now() read after the timestamp.  The field calls
\* lists the calls isLockedOut makes on StorageService itself.
isLockedOut(S, t, F) ==
  LET r == GetItem(S, LOCKOUT_TIMESTAMP, F)
      timeSinceLockout == t - ParseInt(Val(r.ret))
      rs == resetFailedAttempts(S, F)
  IN  IF r.thrown \/ ~IsSome(r.ret) THEN [S |-> S, ret |-> FALSE, calls |-> <<>>]
      ELSE IF LockoutExpired(timeSinceLockout)
           THEN [S |-> rs.S, ret |-> FALSE,
                 calls |-> <<Call("resetFailedAttempts", rs.ret)>>]
           ELSE [S |-> S, ret |-> TRUE, calls |-> <<>>]

getRemainingLockoutTime(S, t, F) ==
  LET r == GetItem(S, LOCKOUT_TIMESTAMP, F)
      remaining == LOCKOUT_DURATION - (t - ParseInt(Val(r.ret)))
  IN  IF r.thrown \/ ~IsSome(r.ret) THEN [S |-> S, ret |-> 0]
      ELSE [S |-> S, ret |-> IF remaining > 0 THEN CeilDiv(remaining, MsPerSecond) ELSE 0]

\* hasSession looking at the credential only.
hasSessionMutant(S, F) ==
  LET credentials == getCredentials(S, F).ret
      userData == getUserData(S, F).ret
  IN  [S |-> S, ret |-> credentials # None,
       calls |-> <<Call("getCredentials", credentials), Call("getUserData", userData)>>]

\* The field calls lists the calls hasSession makes on StorageService itself.
hasSession(S, F) ==
  LET credentials == getCredentials(S, F).ret
      userData == getUserData(S, F).ret
  IN  [S |-> S, ret |-> credentials # None /\ userData # None,
       calls |-> <<Call("getCredentials", credentials), Call("getUserData", userData)>>]

clearAll(S, F) ==
  LET s1 == clearCredentials(S, F).S
      s2 == clearUserData(s1, F).S
      s3 == clearPartialRegistration(s2, F).S
      s4 == resetFailedAttempts(s3, F).S
  IN  [S |-> s4, ret |-> TRUE]

\* ------------------------------------------------------------------------
\* AuthService.  Every operator yields [S, res, calls, t, thrown]: the store
\* after the call, the value the promise resolves to, the StorageService
\* calls the handler made, in order, each with the value it returned, the
\* time of the handler's last clock read, and whether the promise rejects.
\* ------------------------------------------------------------------------

\* The static members class StorageService declares.
StorageServiceMembers ==
  {"storeCredentials", "getCredentials", "clearCredentials", "storeUserData",
   "getUserData", "clearUserData", "storePartialRegistration",
   "getPartialRegistration", "clearPartialRegistration",
   "incrementFailedAttempts", "getFailedAttempts", "resetFailedAttempts",
   "isLockedOut", "getRemainingLockoutTime", "hasSession", "clearAll"}

\* Evaluating StorageService.member(...) when the class has no such member:
\* the callee is undefined and the call throws a TypeError.
ThrowsTypeError(member) == member \notin StorageServiceMembers

\* The value recorded for a call that threw.
TypeError == "TypeError"

\* The members a call list names, in order.
Names(callList) == [i \in DOMAIN callList |-> callList[i][1]]

Result(success, user, error, lockedOut, remainingTime) ==
  [success |-> success, user |-> user, error |-> error,
   lockedOut |-> lockedOut, remainingTime |-> remainingTime]

\* The object {email, firstName, lastName, phoneNumber} built by register.
User(data) ==
  [email |-> data.email, firstName |-> data.firstName,
   lastName |-> data.lastName, phoneNumber |-> data.phoneNumber]

\* existingCredentials?.email === data.email, comparing the password as well.
AlreadyExistsMutant(existingCredentials, data) ==
  /\ IsSome(existingCredentials)
  /\ Val(existingCredentials).email = data.email
  /\ Val(existingCredentials).password = data.password

\* existingCredentials?.email === data.email
AlreadyExists(existingCredentials, data) ==
  IsSome(existingCredentials) /\ Val(existingCredentials).email = data.email

\* The test of the stored flag, taking the credential write to have succeeded.
CredentialsStoredMutant(sc) == TRUE

\* credentialsStored, the value storeCredentials resolved to
CredentialsStored(sc) == sc.ret

\* The rollback left out.
RollbackMutant(S, F) == [S |-> S, ret |-> TRUE]

\* await StorageService.clearCredentials(), the rollback of register
Rollback(S, F) == clearCredentials(S, F)

\* A try block left without its catch: the exception leaves the operation.
CatchMutant(r, returned) == r

\* try { ... } catch (error) { return returned }: an exception thrown in the
\* try block ends there, and the operation resolves to the value returned.
Catch(r, returned) ==
  IF r.thrown THEN [r EXCEPT !.thrown = FALSE, !.res = returned] ELSE r

\* The try block of register.
registerTry(S, data, t, F) ==
  LET existingCredentials == getCredentials(S, F).ret
      user == User(data)
      sc == storeCredentials(S, data.email, data.password, F)
      su == storeUserData(sc.S, user, F)
      cc == Rollback(su.S, F)
      cp == clearPartialRegistration(su.S, F)
      c1 == <<Call("getCredentials", existingCredentials)>>
      c2 == Append(c1, Call("storeCredentials", sc.ret))
      c3 == Append(c2, Call("storeUserData", su.ret))
  IN  IF AlreadyExists(existingCredentials, data)
      THEN [thrown |-> FALSE, S |-> S, t |-> t, calls |-> c1,
            res |-> Result(FALSE, None, <<"An account with this email already exists">>, FALSE, None)]
      ELSE IF ~CredentialsStored(sc)
      THEN [thrown |-> FALSE, S |-> sc.S, t |-> t, calls |-> c2,
            res |-> Result(FALSE, None, <<"Failed to store credentials">>, FALSE, None)]
      ELSE IF ~su.ret
      THEN [thrown |-> FALSE, S |-> cc.S, t |-> t,
            calls |-> Append(c3, Call("clearCredentials", cc.ret)),
            res |-> Result(FALSE, None, <<"Failed to store user data">>, FALSE, None)]
      ELSE IF ThrowsTypeError("setSessionActive")
      THEN [thrown |-> TRUE, S |-> su.S, t |-> t,
            calls |-> Append(c3, Call("setSessionActive", TypeError)),
            res |-> None]
      ELSE [thrown |-> FALSE, S |-> cp.S, t |-> t,
            calls |-> c3 \o <<Call("setSessionActive", None),
                              Call("clearPartialRegistration", cp.ret)>>,
            res |-> Result(TRUE, Some(user), None, FALSE, None)]

register(S, data, t, F) ==
  Catch(registerTry(S, data, t, F),
        Result(FALSE, None, <<"An unexpected error occurred during registration">>, FALSE, None))

\* The comparison of login with the password test left out.
MismatchMutant(credentials, data) == credentials.email # data.email

\* credentials.email !== data.email || credentials.password !== data.password
Mismatch(credentials, data) ==
  credentials.email # data.email \/ credentials.password # data.password

\* The first statement of login with the lockout check skipped.
LockoutGateMutant(S, t, F) == [S |-> S, ret |-> FALSE]

\* const isLockedOut = await StorageService.isLockedOut()
LockoutGate(S, t, F) == isLockedOut(S, t, F)

\* The matching branch of login wiping the whole store in place of the
\* counter.
ResetOnMatchWipes(S, F) == clearAll(S, F)

\* The matching branch of login with the reset of the counter skipped.
ResetOnMatchMutant(S, F) == [S |-> S, ret |-> TRUE]

\* await StorageService.resetFailedAttempts()
ResetOnMatch(S, F) == resetFailedAttempts(S, F)

\* The try block of login.  t is the clock at the first read; each later read
\* happens lat later.
loginTry(S, data, t, lat, F) ==
  LET l1 == LockoutGate(S, t, F)
      rt1 == getRemainingLockoutTime(l1.S, t + lat, F).ret
      credentials == getCredentials(l1.S, F).ret
      inc == incrementFailedAttempts(l1.S, t + lat, F)
      l2 == isLockedOut(inc.S, t + 2 * lat, F)
      rt2 == getRemainingLockoutTime(l2.S, t + 3 * lat, F).ret
      rs == ResetOnMatch(l1.S, F)
      user == getUserData(rs.S, F).ret
      c1 == <<Call("isLockedOut", l1.ret)>>
      c2 == Append(c1, Call("getCredentials", credentials))
      c3 == Append(c2, Call("incrementFailedAttempts", inc.ret))
      c4 == Append(c3, Call("isLockedOut", l2.ret))
      c5 == Append(c2, Call("resetFailedAttempts", rs.ret))
  IN  IF l1.ret
      THEN [thrown |-> FALSE, S |-> l1.S, t |-> t + lat,
            calls |-> Append(c1, Call("getRemainingLockoutTime", rt1)),
            res |-> Result(FALSE, None,
                           <<"Account locked. Please try again in ",
                             CeilDiv(rt1, SecondsPerMinute), " minutes.">>,
                           TRUE, Some(rt1))]
      ELSE IF ~IsSome(credentials)
      THEN [thrown |-> FALSE, S |-> inc.S, t |-> t + lat, calls |-> c3,
            res |-> Result(FALSE, None, <<"Invalid email or password">>, FALSE, None)]
      ELSE IF Mismatch(Val(credentials), data)
      THEN IF l2.ret
           THEN [thrown |-> FALSE, S |-> l2.S, t |-> t + 3 * lat,
                 calls |-> Append(c4, Call("getRemainingLockoutTime", rt2)),
                 res |-> Result(FALSE, None,
                                <<"Too many failed attempts. Account locked for ",
                                  CeilDiv(rt2, SecondsPerMinute), " minutes.">>,
                                TRUE, Some(rt2))]
           ELSE [thrown |-> FALSE, S |-> l2.S, t |-> t + 2 * lat, calls |-> c4,
                 res |-> Result(FALSE, None, <<"Invalid email or password">>, FALSE, None)]
      ELSE IF ThrowsTypeError("setSessionActive")
      THEN [thrown |-> TRUE, S |-> rs.S, t |-> t,
            calls |-> Append(c5, Call("setSessionActive", TypeError)),
            res |-> None]
      ELSE IF ~IsSome(user)
      THEN [thrown |-> FALSE, S |-> rs.S, t |-> t,
            calls |-> c5 \o <<Call("setSessionActive", None), Call("getUserData", user)>>,
            res |-> Result(FALSE, None, <<"User data not found">>, FALSE, None)]
      ELSE [thrown |-> FALSE, S |-> rs.S, t |-> t,
            calls |-> c5 \o <<Call("setSessionActive", None), Call("getUserData", user)>>,
            res |-> Result(TRUE, user, None, FALSE, None)]

login(S, data, t, lat, F) ==
  Catch(loginTry(S, data, t, lat, F),
        Result(FALSE, None, <<"An unexpected error occurred during login">>, FALSE, None))

\* The try block of logout.
logoutTry(S, t, F) ==
  IF ThrowsTypeError("clearSession")
  THEN [thrown |-> TRUE, S |-> S, t |-> t, calls |-> <<Call("clearSession", TypeError)>>, res |-> None]
  ELSE [thrown |-> FALSE, S |-> S, t |-> t, calls |-> <<Call("clearSession", TRUE)>>, res |-> TRUE]

logout(S, t, F) == Catch(logoutTry(S, t, F), FALSE)

\* The faults of the second read of a key in one handler: a label
\* <<"get again", key>> of F makes that read reject.
Again(F) == {<<"get", l[2]>> : l \in {m \in F : m[1] = "get again"}}

\* The try block of checkAuth.  The profile is read twice, by hasSession and
\* by getUserData.
checkAuthTry(S, t, F) ==
  LET hs == hasSession(S, F).ret
      user == getUserData(S, Again(F)).ret
  IN  IF ~hs
      THEN [thrown |-> FALSE, S |-> S, t |-> t, calls |-> <<Call("hasSession", hs)>>,
            res |-> [isAuthenticated |-> FALSE, user |-> None]]
      ELSE [thrown |-> FALSE, S |-> S, t |-> t,
            calls |-> <<Call("hasSession", hs), Call("getUserData", user)>>,
            res |-> [isAuthenticated |-> TRUE, user |-> user]]

\* checkAuth resetting the failed attempts as well.
checkAuthMutant(S, t, F) ==
  [Catch(checkAuthTry(S, t, F), [isAuthenticated |-> FALSE, user |-> None])
     EXCEPT !.S = resetFailedAttempts(S, F).S]

checkAuth(S, t, F) ==
  Catch(checkAuthTry(S, t, F), [isAuthenticated |-> FALSE, user |-> None])

\* ------------------------------------------------------------------------
\* Form validation (utils/validation.ts).  A string is the sequence of its
\* characters.
\* ------------------------------------------------------------------------

Whitespace == {" "}

UpperCase ==
  {"A", "B", "C", "D", "E", "F", "G", "H", "I", "J", "K", "L", "M",
   "N", "O", "P", "Q", "R", "S", "T", "U", "V", "W", "X", "Y", "Z"}

LowerCase ==
  {"a", "b", "c", "d", "e", "f", "g", "h", "i", "j", "k", "l", "m",
   "n", "o", "p", "q", "r", "s", "t", "u", "v", "w", "x", "y", "z"}

Digit == {"0", "1", "2", "3", "4", "5", "6", "7", "8", "9"}

\* /[class]/.test(s): some character of s is in the class.
Test(class, s) == \E i \in 1..Len(s) : s[i] \in class

\* /^[^\s@]+@[^\s@]+\.[^\s@]+$/.test(email)
validateEmail(email) ==
  \E i, j \in 1..Len(email) :
    /\ 1 < i /\ i + 1 < j /\ j < Len(email)
    /\ email[i] = "@"
    /\ email[j] = "."
    /\ \A k \in (1..Len(email)) \ {i} : email[k] \notin Whitespace \cup {"@"}

validatePasswordStrength(password) ==
  /\ Len(password) >= 8
  /\ Test(UpperCase, password)
  /\ Test(LowerCase, password)
  /\ Test(Digit, password)

\* phone.replace(/\D/g, '')
DigitsOnly(phone) == SelectSeq(phone, LAMBDA c : c \in Digit)

validatePhoneNumber(phone) ==
  /\ Len(phone) > 0
  /\ \A i \in 1..Len(phone) : phone[i] \in Digit \cup Whitespace \cup {"-", "(", ")"}
  /\ Len(DigitsOnly(phone)) = 10

\* String.prototype.trim
RECURSIVE Trim(_)
Trim(value) ==
  IF value = <<>> THEN value
  ELSE IF Head(value) \in Whitespace THEN Trim(Tail(value))
  ELSE IF value[Len(value)] \in Whitespace THEN Trim(SubSeq(value, 1, Len(value) - 1))
  ELSE value

validateRequired(value) == Len(Trim(value)) > 0

EmailError(data) ==
  IF ~validateRequired(data.email) THEN Some("Email is required")
  ELSE IF ~validateEmail(data.email) THEN Some("Please enter a valid email address")
  ELSE None

PasswordError(data) ==
  IF ~validateRequired(data.password) THEN Some("Password is required")
  ELSE IF ~validatePasswordStrength(data.password)
       THEN Some("Password must be at least 8 characters with uppercase, lowercase, and number")
  ELSE None

ConfirmPasswordErrorMutant(data) ==
  IF ~validateRequired(data.confirmPassword) THEN Some("Please confirm your password")
  ELSE None

ConfirmPasswordError(data) ==
  IF ~validateRequired(data.confirmPassword) THEN Some("Please confirm your password")
  ELSE IF data.password # data.confirmPassword THEN Some("Passwords do not match")
  ELSE None

FirstNameError(data) ==
  IF ~validateRequired(data.firstName) THEN Some("First name is required") ELSE None

LastNameError(data) ==
  IF ~validateRequired(data.lastName) THEN Some("Last name is required") ELSE None

PhoneNumberError(data) ==
  IF ~validateRequired(data.phoneNumber) THEN Some("Phone number is required")
  ELSE IF ~validatePhoneNumber(data.phoneNumber) THEN Some("Please enter a valid phone number")
  ELSE None

\* The errors object: a function from the fields that were assigned to
\* their messages.
validateRegistrationForm(data) ==
  LET e == [email |-> EmailError(data), password |-> PasswordError(data),
            confirmPassword |-> ConfirmPasswordError(data),
            firstName |-> FirstNameError(data), lastName |-> LastNameError(data),
            phoneNumber |-> PhoneNumberError(data)]
  IN  [f \in {g \in DOMAIN e : IsSome(e[g])} |-> Val(e[f])]

\* Object.keys(errors).length > 0
hasFormErrors(errors) == Cardinality(DOMAIN errors) > 0

\* ------------------------------------------------------------------------
\* State
\* ------------------------------------------------------------------------

VARIABLES
  keychain,      \* the keychain slot of KEYCHAIN_SERVICE
  asyncStorage,  \* AsyncStorage: key -> optional string
  now,           \* Date.now(), in milliseconds
  op,            \* the operation the last step performed
  arg,           \* its argument
  res,           \* the value it resolved to
  calls,         \* the StorageService calls it made, with their values
  threw,         \* whether it ended by throwing instead of resolving
  fails          \* history: consecutive logins with a missing or mismatching
                 \* credential since the last matching login, lockout expiry
                 \* or full wipe
                 \* (counted up to MaxAttempts)

VARIABLES
  authState,           \* AuthProvider: [isAuthenticated, user, isLoading]
  registrationScreen,  \* RegistrationScreen: [mounted, isSubmitting]
  loginScreen,         \* LoginScreen: [mounted, interval, isSubmitting,
                       \*               isLockedOut, remainingTime]
  pending              \* the async functions suspended at an await, in the
                       \* order they were started

screens == <<authState, registrationScreen, loginScreen, pending>>

vars == <<keychain, asyncStorage, now, op, arg, res, calls, threw, fails,
          authState, registrationScreen, loginScreen, pending>>

St == [kc |-> keychain, as |-> asyncStorage]

NoFaults == {}

FaultsOver(labels) == {F \in SUBSET labels : Cardinality(F) <= MaxFaults}

\* The backend calls each handler can make.
RegisterFaults ==
  FaultsOver({<<"get", KC>>, <<"set", KC>>, <<"reset", KC>>, <<"set", USER_DATA>>})

LoginFaults ==
  FaultsOver({<<"get", LOCKOUT_TIMESTAMP>>, <<"get", KC>>,
              <<"get", FAILED_LOGIN_ATTEMPTS>>, <<"set", FAILED_LOGIN_ATTEMPTS>>,
              <<"set", LOCKOUT_TIMESTAMP>>, <<"remove", FAILED_LOGIN_ATTEMPTS>>,
              <<"remove", LOCKOUT_TIMESTAMP>>})

CheckAuthFaults ==
  FaultsOver({<<"get", KC>>, <<"get", USER_DATA>>, <<"get again", USER_DATA>>})

HasSessionFaults == FaultsOver({<<"get", KC>>, <<"get", USER_DATA>>})

RegistrationFormData ==
  [email : Emails, password : Passwords, firstName : FirstNames,
   lastName : LastNames, phoneNumber : PhoneNumbers]

LoginFormData == [email : Emails, password : Passwords]

\* The registration of the one user of the device.
FormData ==
  CHOOSE data \in RegistrationFormData :
    data.email = "a@b.com" /\ data.password = "Passw0rd"

\* The object the watch subscription of the registration form builds from
\* the form values: the four non-password fields.
PartialData ==
  [email : DraftEmails, firstName : FirstNames,
   lastName : {Undefined}, phoneNumber : {Undefined}]

\* Partial<RegistrationFormData> objects that carry the two password fields,
\* as the type of storePartialRegistration's parameter admits.
PasswordDrafts ==
  [email : {"a@b.com"}, password : Passwords, confirmPassword : {"Passw0rd"},
   firstName : FirstNames, lastName : {Undefined}, phoneNumber : {Undefined}]

\* The draft of a form in which only the first name has been typed.
FormDraft == CHOOSE d \in PartialData : d.email = Undefined

\* The stored lockout timestamp and failed-attempt counter, as read back.
LockoutTime == ParseInt(Val(asyncStorage[LOCKOUT_TIMESTAMP]))

FailedAttempts ==
  IF IsSome(asyncStorage[FAILED_LOGIN_ATTEMPTS])
  THEN ParseInt(Val(asyncStorage[FAILED_LOGIN_ATTEMPTS])) ELSE 0

\* A lockout is in force at clock value t.
InForce(t) == IsSome(asyncStorage[LOCKOUT_TIMESTAMP]) /\ t - LockoutTime < LOCKOUT_DURATION

\* The stored lockout has run out at clock value t.
Expired(t) == IsSome(asyncStorage[LOCKOUT_TIMESTAMP]) /\ t - LockoutTime >= LOCKOUT_DURATION

\* The clock when a handler whose last clock read was at t has returned.
Completion(t) == CHOOSE i \in Instants : i >= t /\ \A j \in Instants : j >= t => i <= j

CanComplete(t) == {i \in Instants : i >= t} # {}

\* An async function of a component, suspended at the await of a call.
Suspended(component, fn, at, data) ==
  [component |-> component, fn |-> fn, at |-> at, data |-> data, stale |-> FALSE]

\* The app has been launched: the provider is loading and its mount effect
\* has called checkAuth; the navigator shows the spinner.
InitScreens ==
  /\ authState = [isAuthenticated |-> FALSE, user |-> None, isLoading |-> TRUE]
  /\ registrationScreen = [mounted |-> FALSE, isSubmitting |-> FALSE]
  /\ loginScreen = [mounted |-> FALSE, interval |-> FALSE, isSubmitting |-> FALSE,
                    isLockedOut |-> FALSE, remainingTime |-> 0]
  /\ pending = <<Suspended("AuthProvider", "checkAuth", "checkAuth", None)>>

Init ==
  /\ keychain = None
  /\ asyncStorage = [k \in STORAGE_KEYS |-> None]
  /\ now = 0
  /\ op = "init"
  /\ arg = None
  /\ res = None
  /\ calls = <<>>
  /\ threw = FALSE
  /\ fails = 0
  /\ InitScreens

\* The effect of a handler's value r on the stores, the clock and the record
\* of the last operation.
Effect(name, a, r) ==
  /\ CanComplete(r.t)
  /\ keychain' = r.S.kc
  /\ asyncStorage' = r.S.as
  /\ now' = Completion(r.t)
  /\ op' = name
  /\ arg' = a
  /\ res' = r.res
  /\ calls' = r.calls
  /\ threw' = r.thrown

\* The effect of a handler called from outside the screens.
Apply(name, a, r) ==
  /\ Effect(name, a, r)
  /\ UNCHANGED screens

\* AuthService.register(data)
Register(data, F) ==
  /\ Apply("register", Some(data), register(St, data, now, F))
  /\ UNCHANGED fails

\* The history variable after a login with data started now.
FailsAfterLogin(data) ==
  IF InForce(now) THEN fails
  ELSE IF IsSome(keychain)
          /\ Val(keychain).username = data.email
          /\ Val(keychain).password = data.password
       THEN 0
  ELSE IF Expired(now) THEN 1
  ELSE IF fails < MaxAttempts THEN fails + 1
  ELSE fails

\* AuthService.login(data)
Login(data, lat, F) ==
  /\ FailedAttempts < MaxAttempts
  /\ Apply("login", Some(data), login(St, data, now, lat, F))
  /\ fails' = FailsAfterLogin(data)

\* AuthService.logout()
Logout(F) ==
  /\ Apply("logout", None, logout(St, now, F))
  /\ UNCHANGED fails

\* AuthService.checkAuth()
CheckAuth(F) ==
  /\ Apply("checkAuth", None, checkAuth(St, now, F))
  /\ UNCHANGED fails

\* StorageService.isLockedOut(), as called by the login screen.
IsLockedOut(F) ==
  LET r == isLockedOut(St, now, F)
  IN  /\ Apply("isLockedOut", None,
               [thrown |-> FALSE, S |-> r.S, t |-> now, res |-> r.ret,
                calls |-> <<Call("isLockedOut", r.ret)>> \o r.calls])
      /\ fails' = IF Expired(now) THEN 0 ELSE fails

\* StorageService.hasSession()
HasSession(F) ==
  LET r == hasSession(St, F)
  IN  /\ Apply("hasSession", None,
               [thrown |-> FALSE, S |-> r.S, t |-> now, res |-> r.ret,
                calls |-> <<Call("hasSession", r.ret)>> \o r.calls])
      /\ UNCHANGED fails

\* StorageService.getRemainingLockoutTime(), as called by the login screen.
GetRemainingLockoutTime(F) ==
  LET r == getRemainingLockoutTime(St, now, F)
  IN  /\ Apply("getRemainingLockoutTime", None,
               [thrown |-> FALSE, S |-> r.S, t |-> now, calls |-> <<Call("getRemainingLockoutTime", r.ret)>>, res |-> r.ret])
      /\ UNCHANGED fails

\* StorageService.storePartialRegistration(data), as called on a form edit.
StorePartialRegistration(data, F) ==
  LET r == storePartialRegistration(St, data, F)
  IN  /\ Apply("storePartialRegistration", Some(data),
               [thrown |-> FALSE, S |-> r.S, t |-> now, calls |-> <<Call("storePartialRegistration", r.ret)>>, res |-> r.ret])
      /\ UNCHANGED fails

\* StorageService.incrementFailedAttempts(), called on its own.
IncrementFailedAttempts(F) ==
  LET r == incrementFailedAttempts(St, now, F)
  IN  /\ FailedAttempts < MaxAttempts
      /\ Apply("incrementFailedAttempts", None,
               [thrown |-> FALSE, S |-> r.S, t |-> now, calls |-> <<Call("incrementFailedAttempts", r.ret)>>, res |-> r.ret])
      /\ UNCHANGED fails

\* StorageService.resetFailedAttempts(), called on its own.
ResetFailedAttempts(F) ==
  LET r == resetFailedAttempts(St, F)
  IN  /\ Apply("resetFailedAttempts", None,
               [thrown |-> FALSE, S |-> r.S, t |-> now, calls |-> <<Call("resetFailedAttempts", r.ret)>>, res |-> r.ret])
      /\ UNCHANGED fails

\* StorageService.clearAll()
ClearAll(F) ==
  LET r == clearAll(St, F)
  IN  /\ Apply("clearAll", None,
               [thrown |-> FALSE, S |-> r.S, t |-> now, calls |-> <<Call("clearAll", r.ret)>>, res |-> r.ret])
      /\ fails' = IF r.S.as[FAILED_LOGIN_ATTEMPTS] = None /\ r.S.as[LOCKOUT_TIMESTAMP] = None
                  THEN 0 ELSE fails

\* The starts of the lockout periods the clock runs over.
PeriodStarts == {k * LOCKOUT_DURATION : k \in 0..MaxPeriods}

\* Time passes, up to an instant of T.
Tick(T) ==
  /\ \E t \in T : t > now /\ now' = t
  /\ op' = "tick"
  /\ arg' = None
  /\ res' = None
  /\ calls' = <<>>
  /\ threw' = FALSE
  /\ UNCHANGED <<keychain, asyncStorage, fails>>
  /\ UNCHANGED screens

\* Every backend call succeeds.
Next ==
  \/ \E data \in RegistrationFormData : Register(data, NoFaults)
  \/ \E data \in LoginFormData, lat \in Latencies : Login(data, lat, NoFaults)
  \/ Logout(NoFaults)
  \/ CheckAuth(NoFaults)
  \/ IsLockedOut(NoFaults)
  \/ GetRemainingLockoutTime(NoFaults)
  \/ \E data \in PartialData : StorePartialRegistration(data, NoFaults)
  \/ Tick(Instants)

Spec == Init /\ [][Next]_vars

\* The backend calls of register may fail; the clock is observed at the
\* period starts.
NextRegisterFault ==
  \/ \E data \in RegistrationFormData, F \in RegisterFaults : Register(data, F)
  \/ \E data \in LoginFormData : Login(data, 0, NoFaults)
  \/ Logout(NoFaults)
  \/ CheckAuth(NoFaults)
  \/ IsLockedOut(NoFaults)
  \/ StorePartialRegistration(FormDraft, NoFaults)
  \/ Tick(PeriodStarts)

SpecRegisterFault == Init /\ [][NextRegisterFault]_vars

\* The operations of AuthService, any backend call of which may fail, on a
\* device where one user registers, within the first millisecond.
NextAuthFault ==
  \/ \E F \in RegisterFaults : Register(FormData, F)
  \/ \E data \in LoginFormData, F \in LoginFaults : Login(data, 0, F)
  \/ Logout(NoFaults)
  \/ \E F \in CheckAuthFaults : CheckAuth(F)
  \/ \E F \in HasSessionFaults : HasSession(F)

SpecAuthFault == Init /\ [][NextAuthFault]_vars

\* The operations of AuthService and of StorageService called in any order,
\* every backend call succeeding; the clock is observed at the period starts.
NextApi ==
  \/ \E data \in RegistrationFormData : Register(data, NoFaults)
  \/ \E data \in LoginFormData : Login(data, 0, NoFaults)
  \/ Logout(NoFaults)
  \/ CheckAuth(NoFaults)
  \/ IsLockedOut(NoFaults)
  \/ IncrementFailedAttempts(NoFaults)
  \/ ResetFailedAttempts(NoFaults)
  \/ ClearAll(NoFaults)
  \/ \E data \in PartialData \cup PasswordDrafts : StorePartialRegistration(data, NoFaults)
  \/ Tick(PeriodStarts)

SpecApi == Init /\ [][NextApi]_vars

\* Logins of the registered user and of others, lockout checks and full
\* wipes, every backend call succeeding; the clock is observed at the
\* period starts.
NextWipe ==
  \/ Register(FormData, NoFaults)
  \/ \E data \in LoginFormData : Login(data, 0, NoFaults)
  \/ IsLockedOut(NoFaults)
  \/ ClearAll(NoFaults)
  \/ Tick(PeriodStarts)

SpecWipe == Init /\ [][NextWipe]_vars

\* ------------------------------------------------------------------------
\* Screens.  AppNavigator shows a spinner while authState.isLoading, the
\* Home screen when authenticated, and otherwise the stack of
\* RegistrationScreen (initial route) and LoginScreen.  An async function
\* runs up to its next await in one step; the call it awaits takes effect
\* in the step in which the await resumes.
\* ------------------------------------------------------------------------

\* The navigator renders the Registration / Login stack.
AuthStack(a) == ~a.isLoading /\ ~a.isAuthenticated

Remove(seq, i) == SubSeq(seq, 1, i - 1) \o SubSeq(seq, i + 1, Len(seq))

\* The functions of the given components now belong to unmounted instances.
Stale(p, components) ==
  [i \in 1..Len(p) |->
     IF p[i].component \in components THEN [p[i] EXCEPT !.stale = TRUE] ELSE p[i]]

\* A state setter of useState called by the suspended function e: React
\* drops the update when the instance e belongs to has been unmounted.
SetState(e, screen, field, value) ==
  IF e.stale THEN screen ELSE [screen EXCEPT ![field] = value]

\* The unmounting of LoginScreen without the cleanup of its effect.
CleanupMutant(ls) == [ls EXCEPT !.mounted = FALSE]

\* The unmounting of LoginScreen: return () => clearInterval(interval)
Cleanup(ls) == [ls EXCEPT !.mounted = FALSE, !.interval = FALSE]

\* The screens and suspended functions after the provider state has gone
\* from a to a2, given their values rs, ls, p at the end of the handler.
Render(a, a2, rs, ls, p) ==
  IF AuthStack(a2)
  THEN [registrationScreen |-> IF AuthStack(a) THEN rs
                               ELSE [mounted |-> TRUE, isSubmitting |-> FALSE],
        loginScreen |-> ls,
        pending |-> p]
  ELSE [registrationScreen |-> [rs EXCEPT !.mounted = FALSE],
        loginScreen |-> Cleanup(ls),
        pending |-> Stale(p, {"RegistrationScreen", "LoginScreen"})]

\* A step of the user interface that calls no service.
Gesture(name, a) ==
  /\ op' = name
  /\ arg' = a
  /\ res' = None
  /\ calls' = <<>>
  /\ threw' = FALSE
  /\ UNCHANGED <<keychain, asyncStorage, now, fails>>

\* The value of a StorageService call made directly by a screen.
Direct(member, r) ==
  [thrown |-> FALSE, S |-> r.S, t |-> now, res |-> r.ret,
   calls |-> <<Call(member, r.ret)>>]

\* AuthProvider.checkAuth resumes after await AuthService.checkAuth().
CheckAuthReturned(i) ==
  LET e == pending[i]
      r == checkAuth(St, now, NoFaults)
      a2 == [isAuthenticated |-> r.res.isAuthenticated, user |-> r.res.user,
             isLoading |-> FALSE]
      v == Render(authState, a2, registrationScreen, loginScreen, Remove(pending, i))
  IN  /\ e.at = "checkAuth"
      /\ Effect("checkAuth", None, r)
      /\ authState' = a2
      /\ registrationScreen' = v.registrationScreen
      /\ loginScreen' = v.loginScreen
      /\ pending' = v.pending
      /\ UNCHANGED fails

\* navigation.navigate('Login'): LoginScreen mounts, its effect calls
\* checkLockout() and starts the interval.
NavigateToLogin ==
  /\ registrationScreen.mounted
  /\ ~loginScreen.mounted
  /\ Len(pending) < MaxPending
  /\ loginScreen' = [mounted |-> TRUE, interval |-> TRUE, isSubmitting |-> FALSE,
                     isLockedOut |-> FALSE, remainingTime |-> 0]
  /\ pending' = Append(pending, Suspended("LoginScreen", "checkLockout", "isLockedOut", None))
  /\ Gesture("navigate", Some("Login"))
  /\ UNCHANGED <<authState, registrationScreen>>

\* navigation.navigate('Registration'): LoginScreen is popped and unmounts.
NavigateToRegistration ==
  /\ loginScreen.mounted
  /\ loginScreen' = Cleanup(loginScreen)
  /\ pending' = Stale(pending, {"LoginScreen"})
  /\ Gesture("navigate", Some("Registration"))
  /\ UNCHANGED <<authState, registrationScreen>>

\* The interval of LoginScreen fires: checkLockout() is called.
IntervalFires ==
  /\ loginScreen.interval
  /\ Len(pending) < MaxPending
  /\ pending' = Append(pending,
                       [Suspended("LoginScreen", "checkLockout", "isLockedOut", None)
                          EXCEPT !.stale = ~loginScreen.mounted])
  /\ Gesture("setInterval", None)
  /\ UNCHANGED <<authState, registrationScreen, loginScreen>>

\* checkLockout resumes after await StorageService.isLockedOut().
CheckLockoutResolved(i) ==
  LET e == pending[i]
      r == isLockedOut(St, now, NoFaults)
  IN  /\ e.fn = "checkLockout"
      /\ e.at = "isLockedOut"
      /\ Effect("isLockedOut", None, Direct("isLockedOut", r))
      /\ fails' = IF Expired(now) THEN 0 ELSE fails
      /\ loginScreen' = SetState(e, loginScreen, "isLockedOut", r.ret)
      /\ pending' = IF r.ret THEN [pending EXCEPT ![i].at = "getRemainingLockoutTime"]
                    ELSE Remove(pending, i)
      /\ UNCHANGED <<authState, registrationScreen>>

\* checkLockout resumes after await StorageService.getRemainingLockoutTime().
CheckLockoutRemaining(i) ==
  LET e == pending[i]
      r == getRemainingLockoutTime(St, now, NoFaults)
  IN  /\ e.fn = "checkLockout"
      /\ e.at = "getRemainingLockoutTime"
      /\ Effect("getRemainingLockoutTime", None, Direct("getRemainingLockoutTime", r))
      /\ loginScreen' = SetState(e, loginScreen, "remainingTime", r.ret)
      /\ pending' = Remove(pending, i)
      /\ UNCHANGED <<fails, authState, registrationScreen>>

\* The Sign In button is pressed: Button passes the press on unless disabled
\* or loading; onSubmit runs up to await StorageService.isLockedOut().
PressSignIn(data) ==
  /\ loginScreen.mounted
  /\ ~(loginScreen.isSubmitting \/ loginScreen.isLockedOut)
  /\ Len(pending) < MaxPending
  /\ pending' = Append(pending, Suspended("LoginScreen", "onSubmit", "isLockedOut", Some(data)))
  /\ Gesture("press", Some(data))
  /\ UNCHANGED <<authState, registrationScreen, loginScreen>>

\* LoginScreen.onSubmit resumes after await StorageService.isLockedOut():
\* locked, it awaits getRemainingLockoutTime(); otherwise it sets
\* isSubmitting and calls the provider's login, which sets isLoading and
\* calls AuthService.login(data).
SubmitLockoutChecked(i) ==
  LET e == pending[i]
      r == isLockedOut(St, now, NoFaults)
      a2 == [authState EXCEPT !.isLoading = TRUE]
      v == Render(authState, a2, registrationScreen,
                  SetState(e, loginScreen, "isSubmitting", TRUE),
                  [pending EXCEPT ![i].at = "login"])
  IN  /\ e.fn = "onSubmit"
      /\ e.at = "isLockedOut"
      /\ Effect("isLockedOut", None, Direct("isLockedOut", r))
      /\ fails' = IF Expired(now) THEN 0 ELSE fails
      /\ IF r.ret
         THEN /\ pending' = [pending EXCEPT ![i].at = "getRemainingLockoutTime"]
              /\ UNCHANGED <<authState, registrationScreen, loginScreen>>
         ELSE /\ authState' = a2
              /\ registrationScreen' = v.registrationScreen
              /\ loginScreen' = v.loginScreen
              /\ pending' = v.pending

\* LoginScreen.onSubmit resumes after await
\* StorageService.getRemainingLockoutTime() and returns.
SubmitRemaining(i) ==
  LET e == pending[i]
      r == getRemainingLockoutTime(St, now, NoFaults)
  IN  /\ e.fn = "onSubmit"
      /\ e.at = "getRemainingLockoutTime"
      /\ Effect("getRemainingLockoutTime", None, Direct("getRemainingLockoutTime", r))
      /\ loginScreen' = SetState(e, SetState(e, loginScreen, "isLockedOut", TRUE),
                                 "remainingTime", r.ret)
      /\ pending' = Remove(pending, i)
      /\ UNCHANGED <<fails, authState, registrationScreen>>

\* The provider state after AuthService.register or login has returned result.
Authenticated(a, result) ==
  IF result.success /\ IsSome(result.user)
  THEN [isAuthenticated |-> TRUE, user |-> result.user, isLoading |-> FALSE]
  ELSE [a EXCEPT !.isLoading = FALSE]

\* AuthService.login(data) returns to the provider's login, which returns to
\* LoginScreen.onSubmit.
LoginReturned(i) ==
  LET e == pending[i]
      r == login(St, Val(e.data), now, 0, NoFaults)
      a2 == Authenticated(authState, r.res)
      ls1 == IF ~r.res.success /\ r.res.lockedOut
             THEN SetState(e, SetState(e, loginScreen, "isLockedOut", TRUE), "remainingTime",
                           IF IsSome(r.res.remainingTime) THEN Val(r.res.remainingTime) ELSE 0)
             ELSE loginScreen
      v == Render(authState, a2, registrationScreen,
                  SetState(e, ls1, "isSubmitting", FALSE), Remove(pending, i))
  IN  /\ e.at = "login"
      /\ FailedAttempts < MaxAttempts
      /\ Effect("login", e.data, r)
      /\ fails' = FailsAfterLogin(Val(e.data))
      /\ authState' = a2
      /\ registrationScreen' = v.registrationScreen
      /\ loginScreen' = v.loginScreen
      /\ pending' = v.pending

\* The SAVE & START button is pressed: onSubmit validates, sets isSubmitting
\* and calls the provider's register, which sets isLoading and calls
\* AuthService.register(data).
PressSaveAndStart(data) ==
  LET a2 == [authState EXCEPT !.isLoading = TRUE]
      v == Render(authState, a2,
                  [registrationScreen EXCEPT !.isSubmitting = TRUE], loginScreen,
                  Append(pending, Suspended("RegistrationScreen", "onSubmit", "register", Some(data))))
  IN  /\ registrationScreen.mounted
      /\ ~loginScreen.mounted
      /\ ~registrationScreen.isSubmitting
      /\ Len(pending) < MaxPending
      /\ authState' = a2
      /\ registrationScreen' = v.registrationScreen
      /\ loginScreen' = v.loginScreen
      /\ pending' = v.pending
      /\ Gesture("press", Some(data))

\* AuthService.register(data) returns to the provider's register, which
\* returns to RegistrationScreen.onSubmit; on success onSubmit clears the
\* draft.
RegisterReturned(i) ==
  LET e == pending[i]
      r == register(St, Val(e.data), now, NoFaults)
      a2 == Authenticated(authState, r.res)
      v == Render(authState, a2,
                  SetState(e, registrationScreen, "isSubmitting", FALSE), loginScreen,
                  Remove(pending, i))
  IN  /\ e.at = "register"
      /\ Effect("register", e.data,
                IF r.res.success
                THEN [r EXCEPT !.S = clearPartialRegistration(r.S, NoFaults).S]
                ELSE r)
      /\ authState' = a2
      /\ registrationScreen' = v.registrationScreen
      /\ loginScreen' = v.loginScreen
      /\ pending' = v.pending
      /\ UNCHANGED fails

\* The Logout button of HomeScreen is pressed and confirmed: the provider's
\* logout sets isLoading and calls AuthService.logout().  HomeScreen shows
\* the button only when it has a user.
PressLogout ==
  LET a2 == [authState EXCEPT !.isLoading = TRUE]
      v == Render(authState, a2, registrationScreen, loginScreen,
                  Append(pending, Suspended("AuthProvider", "logout", "logout", None)))
  IN  /\ ~authState.isLoading
      /\ authState.isAuthenticated
      /\ IsSome(authState.user)
      /\ Len(pending) < MaxPending
      /\ authState' = a2
      /\ registrationScreen' = v.registrationScreen
      /\ loginScreen' = v.loginScreen
      /\ pending' = v.pending
      /\ Gesture("press", None)

\* AuthService.logout() returns to the provider's logout, which ignores its
\* value.
LogoutReturned(i) ==
  LET e == pending[i]
      r == logout(St, now, NoFaults)
      a2 == [isAuthenticated |-> FALSE, user |-> None, isLoading |-> FALSE]
      v == Render(authState, a2, registrationScreen, loginScreen, Remove(pending, i))
  IN  /\ e.at = "logout"
      /\ Effect("logout", None, r)
      /\ authState' = a2
      /\ registrationScreen' = v.registrationScreen
      /\ loginScreen' = v.loginScreen
      /\ pending' = v.pending
      /\ UNCHANGED fails

\* The app is killed and launched again: the state of the provider and
\* every suspended function are lost, the screens are unmounted (the state
\* of LoginScreen is set afresh when it mounts), the keychain and
\* AsyncStorage are kept, and the provider's mount effect calls checkAuth.
Restart ==
  /\ authState' = [isAuthenticated |-> FALSE, user |-> None, isLoading |-> TRUE]
  /\ registrationScreen' = [mounted |-> FALSE, isSubmitting |-> FALSE]
  /\ loginScreen' = Cleanup(loginScreen)
  /\ pending' = <<Suspended("AuthProvider", "checkAuth", "checkAuth", None)>>
  /\ Gesture("restart", None)

\* The login forms submitted with the email of the registered user.
SignInData == {data \in LoginFormData : data.email = FormData.email}

\* The app from its launch: the user moves between the two screens and
\* presses their buttons while the poll of LoginScreen runs; every backend
\* call succeeds and the clock is observed at the period starts.
NextScreens ==
  \/ \E i \in 1..Len(pending) : CheckAuthReturned(i)
  \/ NavigateToLogin
  \/ NavigateToRegistration
  \/ IntervalFires
  \/ \E i \in 1..Len(pending) : CheckLockoutResolved(i)
  \/ \E i \in 1..Len(pending) : CheckLockoutRemaining(i)
  \/ \E data \in SignInData : PressSignIn(data)
  \/ \E i \in 1..Len(pending) : SubmitLockoutChecked(i)
  \/ \E i \in 1..Len(pending) : SubmitRemaining(i)
  \/ \E i \in 1..Len(pending) : LoginReturned(i)
  \/ PressSaveAndStart(FormData)
  \/ \E i \in 1..Len(pending) : RegisterReturned(i)
  \/ PressLogout
  \/ \E i \in 1..Len(pending) : LogoutReturned(i)
  \/ Restart
  \/ Tick(PeriodStarts)

SpecScreens == Init /\ [][NextScreens]_vars

\* ------------------------------------------------------------------------
\* The poll of LoginScreen and AuthService.login at the grain of their
\* backend calls: a function suspended at an await of AsyncStorage or of the
\* keychain resumes in a step of its own, in which the backend call takes
\* effect and the function runs up to its next backend call.  The locals of
\* a suspended function are the form it was given, the StorageService
\* member it is inside, the newAttempts of incrementFailedAttempts, whether
\* the counter has been written and whether the credential was missing.
\* ------------------------------------------------------------------------

GET_TIMESTAMP == "getItem @lockout_timestamp"

REMOVE_ATTEMPTS == "removeItem @failed_login_attempts"

REMOVE_TIMESTAMP == "removeItem @lockout_timestamp"

GET_ATTEMPTS == "getItem @failed_login_attempts"

SET_ATTEMPTS == "setItem @failed_login_attempts"

SET_TIMESTAMP == "setItem @lockout_timestamp"

GET_PASSWORD == "getGenericPassword"

Locals(form, member) ==
  [form |-> form, member |-> member, newAttempts |-> 0, written |-> FALSE,
   missing |-> FALSE]

\* The function e suspended at the backend call at of member, with locals l.
Inside(e, member, at, l) ==
  [e EXCEPT !.at = at, !.data = Some([l EXCEPT !.member = member])]

\* isLockedOut resumes at the backend call e.at: the store afterwards, the
\* function suspended at the next backend call of isLockedOut if there is
\* one, and otherwise the value isLockedOut returns.
isLockedOutStep(e, S, t) ==
  LET r == GetItem(S, LOCKOUT_TIMESTAMP, NoFaults)
  IN  IF e.at = GET_TIMESTAMP
      THEN IF ~IsSome(r.ret) THEN [S |-> S, next |-> None, ret |-> FALSE]
           ELSE IF LockoutExpired(t - ParseInt(Val(r.ret)))
           THEN [S |-> S, next |-> Some([e EXCEPT !.at = REMOVE_ATTEMPTS]), ret |-> FALSE]
           ELSE [S |-> S, next |-> None, ret |-> TRUE]
      ELSE IF e.at = REMOVE_ATTEMPTS
      THEN [S |-> RemoveItem(S, FAILED_LOGIN_ATTEMPTS, NoFaults).S,
            next |-> Some([e EXCEPT !.at = REMOVE_TIMESTAMP]), ret |-> FALSE]
      ELSE [S |-> RemoveItem(S, LOCKOUT_TIMESTAMP, NoFaults).S, next |-> None, ret |-> FALSE]

\* checkLockout resumes: the store afterwards and the function suspended at
\* its next backend call, if it has not returned.
checkLockoutStep(e, S, t) ==
  LET l == Val(e.data)
      r == isLockedOutStep(e, S, t)
  IN  IF l.member = "isLockedOut"
      THEN IF IsSome(r.next) THEN [S |-> r.S, next |-> r.next]
           ELSE IF r.ret
           THEN [S |-> r.S, next |-> Some(Inside(e, "getRemainingLockoutTime", GET_TIMESTAMP, l))]
           ELSE [S |-> r.S, next |-> None]
      ELSE [S |-> S, next |-> None]

\* login after incrementFailedAttempts has returned.
Incremented(e, S, l) ==
  IF l.missing
  THEN [S |-> S, next |-> None,
        res |-> Some(Result(FALSE, None, <<"Invalid email or password">>, FALSE, None))]
  ELSE [S |-> S, next |-> Some(Inside(e, "isLockedOut again", GET_TIMESTAMP, l)), res |-> None]

\* AuthService.login resumes: the store afterwards, the function suspended
\* at its next backend call, or the result login returns.
loginStep(e, S, t) ==
  LET l == Val(e.data)
      m == l.member
      r == isLockedOutStep(e, S, t)
      rt == getRemainingLockoutTime(S, t, NoFaults).ret
      credentials == getCredentials(S, NoFaults).ret
      attempts == getFailedAttempts(S, NoFaults).ret
      w1 == SetItem(S, FAILED_LOGIN_ATTEMPTS, NumberToString(l.newAttempts), NoFaults)
      w2 == SetItem(S, LOCKOUT_TIMESTAMP, NumberToString(t), NoFaults)
      user == getUserData(S, NoFaults).ret
      Return(S2, result) == [S |-> S2, next |-> None, res |-> Some(result)]
      Await(S2, member, at, l2) == [S |-> S2, next |-> Some(Inside(e, member, at, l2)), res |-> None]
  IN  CASE m = "isLockedOut" ->
             IF IsSome(r.next) THEN [S |-> r.S, next |-> r.next, res |-> None]
             ELSE IF r.ret THEN Await(r.S, "getRemainingLockoutTime", GET_TIMESTAMP, l)
             ELSE Await(r.S, "getCredentials", GET_PASSWORD, l)
        [] m = "getRemainingLockoutTime" ->
             Return(S, Result(FALSE, None,
                              <<"Account locked. Please try again in ",
                                CeilDiv(rt, SecondsPerMinute), " minutes.">>,
                              TRUE, Some(rt)))
        [] m = "getCredentials" ->
             IF ~IsSome(credentials)
             THEN Await(S, "incrementFailedAttempts", GET_ATTEMPTS, [l EXCEPT !.missing = TRUE])
             ELSE IF Mismatch(Val(credentials), l.form)
             THEN Await(S, "incrementFailedAttempts", GET_ATTEMPTS, l)
             ELSE Await(S, "resetFailedAttempts", REMOVE_ATTEMPTS, l)
        [] m = "incrementFailedAttempts" ->
             IF e.at = GET_ATTEMPTS
             THEN Await(S, m, SET_ATTEMPTS, [l EXCEPT !.newAttempts = attempts + 1])
             ELSE IF e.at = SET_ATTEMPTS
             THEN IF Stamp(l.newAttempts)
                  THEN Await(w1.S, m, SET_TIMESTAMP, [l EXCEPT !.written = TRUE])
                  ELSE Incremented(e, w1.S, [l EXCEPT !.written = TRUE])
             ELSE Incremented(e, w2.S, l)
        [] m = "isLockedOut again" ->
             IF IsSome(r.next) THEN [S |-> r.S, next |-> r.next, res |-> None]
             ELSE IF r.ret THEN Await(r.S, "getRemainingLockoutTime again", GET_TIMESTAMP, l)
             ELSE Return(r.S, Result(FALSE, None, <<"Invalid email or password">>, FALSE, None))
        [] m = "getRemainingLockoutTime again" ->
             Return(S, Result(FALSE, None,
                              <<"Too many failed attempts. Account locked for ",
                                CeilDiv(rt, SecondsPerMinute), " minutes.">>,
                              TRUE, Some(rt)))
        [] m = "resetFailedAttempts" ->
             IF e.at = REMOVE_ATTEMPTS
             THEN Await(RemoveItem(S, FAILED_LOGIN_ATTEMPTS, NoFaults).S, m, REMOVE_TIMESTAMP, l)
             ELSE LET S2 == RemoveItem(S, LOCKOUT_TIMESTAMP, NoFaults).S
                  IN  IF ThrowsTypeError("setSessionActive")
                      THEN Return(S2, Result(FALSE, None,
                                             <<"An unexpected error occurred during login">>,
                                             FALSE, None))
                      ELSE IF ~IsSome(user)
                      THEN Return(S2, Result(FALSE, None, <<"User data not found">>, FALSE, None))
                      ELSE Return(S2, Result(TRUE, user, None, FALSE, None))

\* The record of a step in which the suspended function e resumed.
Resumed(e, S, result) ==
  /\ keychain' = S.kc
  /\ asyncStorage' = S.as
  /\ op' = "await"
  /\ arg' = Some(<<e.fn, Val(e.data).member, e.at>>)
  /\ res' = result
  /\ calls' = <<>>
  /\ threw' = FALSE
  /\ UNCHANGED now

\* The interval of LoginScreen fires, or the screen mounts: checkLockout()
\* runs up to the first backend call of isLockedOut.
PollStarts ==
  /\ Len(pending) < MaxPending
  /\ pending' = Append(pending,
                       Suspended("LoginScreen", "checkLockout", GET_TIMESTAMP,
                                 Some(Locals(None, "isLockedOut"))))
  /\ Gesture("setInterval", None)
  /\ UNCHANGED <<authState, registrationScreen, loginScreen>>

\* checkLockout resumes after a backend call.
PollResumes(i) ==
  LET e == pending[i]
      r == checkLockoutStep(e, St, now)
  IN  /\ e.fn = "checkLockout"
      /\ Resumed(e, r.S, None)
      /\ pending' = IF IsSome(r.next) THEN [pending EXCEPT ![i] = Val(r.next)]
                    ELSE Remove(pending, i)
      /\ fails' = IF e.at = GET_TIMESTAMP /\ Expired(now) THEN 0 ELSE fails
      /\ UNCHANGED <<authState, registrationScreen, loginScreen>>

\* AuthService.login(data) is called while no other login is in flight and
\* runs up to the first backend call of isLockedOut.
LoginStarts(data) ==
  /\ Len(pending) < MaxPending
  /\ FailedAttempts < MaxAttempts
  /\ \A i \in 1..Len(pending) : pending[i].fn # "login"
  /\ pending' = Append(pending,
                       Suspended("AuthProvider", "login", GET_TIMESTAMP,
                                 Some(Locals(data, "isLockedOut"))))
  /\ Gesture("press", Some(data))
  /\ UNCHANGED <<authState, registrationScreen, loginScreen>>

\* AuthService.login resumes after a backend call.
LoginResumes(i) ==
  LET e == pending[i]
      r == loginStep(e, St, now)
  IN  /\ e.fn = "login"
      /\ Resumed(e, r.S, r.res)
      /\ pending' = IF IsSome(r.next) THEN [pending EXCEPT ![i] = Val(r.next)]
                    ELSE Remove(pending, i)
      /\ fails' = IF e.at = GET_TIMESTAMP /\ Expired(now) THEN 0
                  ELSE IF e.at = SET_ATTEMPTS
                  THEN IF fails < MaxAttempts THEN fails + 1 ELSE fails
                  ELSE IF Val(e.data).member = "resetFailedAttempts" THEN 0
                  ELSE fails
      /\ UNCHANGED <<authState, registrationScreen, loginScreen>>

\* The poll and one login at a time, interleaved at their backend calls,
\* after the launch and a registration; every backend call succeeds and the
\* clock is observed at the period starts.
NextInterleave ==
  \/ \E i \in 1..Len(pending) : CheckAuthReturned(i)
  \/ Register(FormData, NoFaults)
  \/ PollStarts
  \/ \E i \in 1..Len(pending) : PollResumes(i)
  \/ \E data \in SignInData : LoginStarts(data)
  \/ \E i \in 1..Len(pending) : LoginResumes(i)
  \/ Tick(PeriodStarts)

SpecInterleave == Init /\ [][NextInterleave]_vars

\* The values typed into the six fields of the registration form.
EmailInputs ==
  {<<>>, <<" ">>, <<"a", "@", "b", ".", "c">>, <<"a", "@", "b">>,
   <<"a", " ", "@", "b", ".", "c">>}

PasswordInputs ==
  {<<>>, <<" ", " ">>, <<"P", "a", "s", "s", "w", "0", "r", "d">>,
   <<"p", "a", "s", "s", "w", "0", "r", "d">>, <<"P", "w", "0">>}

ConfirmPasswordInputs ==
  {<<>>, <<" ">>, <<" ", " ">>, <<"P", "a", "s", "s", "w", "0", "r", "d">>,
   <<"P", "a", "s", "s", "w", "0", "r", "D">>, <<"P", "w", "0">>}

NameInputs == {<<>>, <<" ">>, <<" ", "J", "o", " ">>}

PhoneNumberInputs ==
  {<<>>, <<" ">>, <<"1", "2", "3", "4", "5", "6", "7", "8", "9", "0">>,
   <<"(", "1", "2", "3", ")", " ", "4", "5", "6", "-", "7", "8", "9", "0">>,
   <<"1", "2", "3">>, <<"1", "2", "3", "4", "5", "6", "7", "8", "9", "x", "0">>}

FormInputs ==
  [email : EmailInputs, password : PasswordInputs,
   confirmPassword : ConfirmPasswordInputs, firstName : NameInputs,
   lastName : NameInputs, phoneNumber : PhoneNumberInputs]

\* The registration form holds typed values and nothing is stored yet.
InitForm ==
  /\ keychain = None
  /\ asyncStorage = [k \in STORAGE_KEYS |-> None]
  /\ now = 0
  /\ op = "form"
  /\ arg \in {Some(data) : data \in FormInputs}
  /\ res = None
  /\ calls = <<>>
  /\ threw = FALSE
  /\ fails = 0
  /\ InitScreens

\* validateRegistrationForm(data), as called by the registration screen
\* on the values of the form.
ValidateRegistrationForm ==
  /\ op = "form"
  /\ Apply("validateRegistrationForm", arg,
           [thrown |-> FALSE, S |-> St, t |-> now, calls |-> <<>>,
            res |-> validateRegistrationForm(Val(arg))])
  /\ UNCHANGED fails

\* The registration form is validated with any typed values.
NextForm == ValidateRegistrationForm

SpecForm == InitForm /\ [][NextForm]_vars
\* ------------------------------------------------------------------------
\* Properties
\* ------------------------------------------------------------------------

Draft == asyncStorage[PARTIAL_REGISTRATION]

Profile == asyncStorage[USER_DATA]

\* The keychain slot holding the pair (email, password) of data.
SlotOf(data) == Some([username |-> data.email, password |-> data.password])

\* getRemainingLockoutTime at clock value t, from the stored timestamp.
RemainingAt(t) ==
  IF LOCKOUT_DURATION - (t - LockoutTime) > 0
  THEN CeilDiv(LOCKOUT_DURATION - (t - LockoutTime), MsPerSecond) ELSE 0

\* C1: once 5 consecutive logins have failed on a missing or mismatching
\* credential, a lockout timestamp is stored and isLockedOut() is true at
\* every clock value less than 15 minutes after it; and every isLockedOut()
\* call made less than 15 minutes after the stored timestamp returns true and
\* keeps the timestamp.
C1_LockedAfterFiveFailures ==
  [][ /\ fails' = 5 =>
           /\ IsSome(asyncStorage'[LOCKOUT_TIMESTAMP])
           /\ InForce(now)' => isLockedOut(St', now', NoFaults).ret
      /\ (op' = "isLockedOut" /\ InForce(now)) =>
           /\ res' = TRUE
           /\ asyncStorage' = asyncStorage ]_vars

C1_Witness ==
  /\ fails = 5
  /\ op = "isLockedOut"
  /\ res = TRUE
  /\ now > LockoutTime

\* C2: a login made while a lockout is in force, whatever the credentials,
\* returns success=false, lockedOut=true and the remaining time, and leaves
\* the failed-attempt counter and the lockout timestamp as they were.
C2_LoginRejectedWhileLocked ==
  [][ (op' = "login" /\ InForce(now)) =>
        /\ res'.success = FALSE
        /\ res'.lockedOut = TRUE
        /\ \E lat \in Latencies : res'.remainingTime = Some(RemainingAt(now + lat))
        /\ asyncStorage'[FAILED_LOGIN_ATTEMPTS] = asyncStorage[FAILED_LOGIN_ATTEMPTS]
        /\ asyncStorage'[LOCKOUT_TIMESTAMP] = asyncStorage[LOCKOUT_TIMESTAMP] ]_vars

\* A login with the stored email and password, rejected at the lockout gate.
C2_Witness ==
  /\ op = "login"
  /\ keychain = SlotOf(Val(arg))
  /\ res.lockedOut = TRUE
  /\ Names(calls) = <<"isLockedOut", "getRemainingLockoutTime">>
  /\ FailedAttempts = MAX_FAILED_ATTEMPTS

\* C3: a logout made when a credential and a profile are stored keeps both,
\* and after it hasSession() is false and checkAuth() reports
\* isAuthenticated=false.
C3_LogoutEndsSession ==
  [][ (op' = "logout" /\ IsSome(keychain) /\ IsSome(Profile)) =>
        /\ keychain' = keychain
        /\ Profile' = Profile
        /\ ~hasSession(St', NoFaults).ret
        /\ ~checkAuth(St', now', NoFaults).res.isAuthenticated ]_vars

\* C4: logout calls clearAll and returns true, and after it no credential,
\* user data, draft, failed-attempt counter or lockout timestamp is stored.
C4_LogoutWipesAll ==
  op = "logout" =>
    /\ calls = <<Call("clearAll", TRUE)>>
    /\ res = TRUE
    /\ St = EmptyStore

\* C6: a register whose email equals the email of the stored credential
\* returns success=false with the 'already exists' error, for every
\* password, and changes nothing in storage.
C6_RegisterExistingEmail ==
  [][ (op' = "register" /\ IsSome(keychain)
         /\ Val(keychain).username = Val(arg').email) =>
        /\ res'.success = FALSE
        /\ res'.error = <<"An account with this email already exists">>
        /\ keychain' = keychain
        /\ asyncStorage' = asyncStorage ]_vars

\* The rejected registration submitted another password than the stored one.
C6_Witness ==
  /\ op = "register"
  /\ res.error = <<"An account with this email already exists">>
  /\ IsSome(keychain)
  /\ Val(keychain).username = Val(arg).email
  /\ Val(keychain).password # Val(arg).password
  /\ IsSome(Draft)

\* C7: a register that returns success=false leaves the stored credential
\* and the stored user profile exactly as they were before the call.
C7_RegisterAtomic ==
  [][ (op' = "register" /\ res'.success = FALSE) =>
        /\ keychain' = keychain
        /\ Profile' = Profile ]_vars

\* The register of the last step stored the credential and its call number i,
\* of storeUserData, returned false.
ProfileWriteFailed(i) ==
  /\ op' = "register"
  /\ i \in DOMAIN calls'
  /\ i > 1
  /\ calls'[i - 1] = Call("storeCredentials", TRUE)
  /\ calls'[i] = Call("storeUserData", FALSE)

C9_CredentialWriteFailure ==
  [][ (op' = "register"
         /\ \E i \in DOMAIN calls' : calls'[i] = Call("storeCredentials", FALSE)) =>
        /\ res'.success = FALSE
        /\ res'.error = <<"Failed to store credentials">>
        /\ Names(calls') = <<"getCredentials", "storeCredentials">>
        /\ keychain' = keychain
        /\ asyncStorage' = asyncStorage ]_vars

\* The failed registration found a profile and a draft in storage, for
\* another email than the submitted one.
C9_Witness ==
  /\ op = "register"
  /\ res.error = <<"Failed to store credentials">>
  /\ calls[Len(calls)] = Call("storeCredentials", FALSE)
  /\ IsSome(Draft)
  /\ IsSome(Profile)
  /\ JSONParse(Val(Profile)).email # Val(arg).email

\* C10: a register for an email no stored credential has returns
\* success=true with the submitted profile, the slot holds the submitted
\* credential, and a following checkAuth reports isAuthenticated=true with
\* that user.
C10_RegisterSucceeds ==
  [][ (op' = "register" /\ ~AlreadyExists(getCredentials(St, NoFaults).ret, Val(arg'))) =>
        /\ res'.success = TRUE
        /\ res'.user = Some(User(Val(arg')))
        /\ keychain' = SlotOf(Val(arg'))
        /\ checkAuth(St', now', NoFaults).res
             = [isAuthenticated |-> TRUE, user |-> Some(User(Val(arg')))] ]_vars

\* The stored credential differs from the submitted pair data.
Differs(data) ==
  /\ IsSome(keychain)
  /\ Val(keychain).username # data.email \/ Val(keychain).password # data.password

\* C11: with a stored credential that differs from the submitted pair, no
\* lockout timestamp stored and a counter below 5, a login adds one to the
\* stored counter and returns success=false; while the new count is below 5
\* the error is 'Invalid email or password', the result carries no lockedOut
\* flag and no timestamp is stored; when the new count is 5 the result has
\* lockedOut=true and a timestamp is stored, and remainingTime is 900 when
\* the login returns at the clock value of the stamp.
C11_FifthFailureLocks ==
  [][ (op' = "login" /\ Differs(Val(arg'))
         /\ ~IsSome(asyncStorage[LOCKOUT_TIMESTAMP])
         /\ FailedAttempts < MAX_FAILED_ATTEMPTS) =>
        /\ FailedAttempts' = FailedAttempts + 1
        /\ res'.success = FALSE
        /\ FailedAttempts + 1 < MAX_FAILED_ATTEMPTS =>
             /\ res'.error = <<"Invalid email or password">>
             /\ res'.lockedOut = FALSE
             /\ res'.remainingTime = None
             /\ ~IsSome(asyncStorage'[LOCKOUT_TIMESTAMP])
        /\ FailedAttempts + 1 = MAX_FAILED_ATTEMPTS =>
             /\ res'.lockedOut = TRUE
             /\ IsSome(asyncStorage'[LOCKOUT_TIMESTAMP])
             /\ IsSome(res'.remainingTime)
             /\ now' = LockoutTime' =>
                  res'.remainingTime = Some(LOCKOUT_DURATION \div MsPerSecond) ]_vars

\* The fifth consecutive failure against a stored credential, returned at
\* the clock value of the stamp.
C11_Witness ==
  /\ op = "login"
  /\ Differs(Val(arg))
  /\ fails = MAX_FAILED_ATTEMPTS
  /\ FailedAttempts = MAX_FAILED_ATTEMPTS
  /\ now = LockoutTime
  /\ res.lockedOut = TRUE
  /\ res.remainingTime = Some(900)
  /\ Names(calls) = <<"isLockedOut", "getCredentials", "incrementFailedAttempts",
                      "isLockedOut", "getRemainingLockoutTime">>

\* C12: from every lockout state and counter value, a login against an
\* empty credential slot and the same login against a stored credential that
\* differs from the submitted pair return the same result value and leave
\* the same counter and timestamp.
C12_MissingAsWrongPassword ==
  \A data \in LoginFormData, stored \in LoginFormData, lat \in Latencies :
    stored # data =>
      LET missing == login([St EXCEPT !.kc = None], data, now, lat, NoFaults)
          wrong == login([St EXCEPT !.kc = SlotOf(stored)], data, now, lat, NoFaults)
      IN  /\ missing.res = wrong.res
          /\ missing.S.as = wrong.S.as

AuthServiceOperations == {"register", "login", "logout", "checkAuth"}

\* C14: once a credential is in the keychain slot, no register, login,
\* logout or checkAuth changes the stored email or password.
C14_CredentialNeverOverwritten ==
  [][ (op' \in AuthServiceOperations /\ IsSome(keychain)) => keychain' = keychain ]_vars

\* C15: in every state reached through the AuthService operations, a stored
\* profile has the email of the stored credential whenever both are stored,
\* and a profile is stored only if a credential is stored.
C15_ProfileMirrorsCredential ==
  /\ (IsSome(keychain) /\ IsSome(Profile)) =>
       JSONParse(Val(Profile)).email = Val(keychain).username
  /\ IsSome(Profile) => IsSome(keychain)

PasswordFields == {"password", "confirmPassword"}

\* C16: after every storePartialRegistration(d), also for a d that carries
\* password or confirmPassword, the stored draft has no password and no
\* confirmPassword member.
C16_DraftHasNoPassword ==
  op = "storePartialRegistration" =>
    \A i \in DOMAIN Val(Draft) : Val(Draft)[i][1] \notin PasswordFields

\* d restricted to its non-password fields; a property holding undefined
\* counts as missing, as deep equality has it.
NonPassword(d) ==
  [k \in {f \in DOMAIN d \ PasswordFields : d[f] # Undefined} |-> d[k]]

\* C17: when the backend calls succeed, getPartialRegistration() after
\* storePartialRegistration(d) returns d restricted to its non-password
\* fields.
C17_DraftRoundTrip ==
  [][ (op' = "storePartialRegistration" /\ res' = TRUE) =>
        getPartialRegistration(St', NoFaults).ret = Some(NonPassword(Val(arg'))) ]_vars

\* C18: while the stored lockout timestamp stays the same and the clock does
\* not go back, the value of getRemainingLockoutTime() does not increase from
\* one clock value to the next; it is always within 0..900; and at every
\* clock value it is 0 exactly when isLockedOut() returns false and positive
\* exactly when isLockedOut() returns true.
C18_RemainingTimeCountsDown ==
  /\ [] LET remaining == getRemainingLockoutTime(St, now, NoFaults).ret
            locked == isLockedOut(St, now, NoFaults).ret
        IN  /\ remaining \in 0..(LOCKOUT_DURATION \div MsPerSecond)
            /\ remaining = 0 <=> ~locked
            /\ remaining > 0 <=> locked
            /\ op = "getRemainingLockoutTime" => res = remaining
  /\ [][ (IsSome(asyncStorage[LOCKOUT_TIMESTAMP])
           /\ asyncStorage'[LOCKOUT_TIMESTAMP] = asyncStorage[LOCKOUT_TIMESTAMP]
           /\ now' >= now) =>
          getRemainingLockoutTime(St', now', NoFaults).ret
            <= getRemainingLockoutTime(St, now, NoFaults).ret ]_vars

\* getRemainingLockoutTime() called in the last millisecond of a lockout.
C18_Witness ==
  /\ op = "getRemainingLockoutTime"
  /\ IsSome(asyncStorage[LOCKOUT_TIMESTAMP])
  /\ now - LockoutTime = LOCKOUT_DURATION - 1
  /\ res = 1

\* C19: an isLockedOut() call made 15 minutes or more after the stored
\* lockout timestamp returns false and leaves neither the counter nor the
\* timestamp stored, so that getFailedAttempts() is 0; and while fewer than
\* 5 logins have failed since, no lockout timestamp is stored.
C19_ExpiryResets ==
  /\ [][ (op' = "isLockedOut" /\ Expired(now)) =>
           /\ res' = FALSE
           /\ asyncStorage'[FAILED_LOGIN_ATTEMPTS] = None
           /\ asyncStorage'[LOCKOUT_TIMESTAMP] = None
           /\ getFailedAttempts(St', NoFaults).ret = 0
           /\ fails' = 0 ]_vars
  /\ [](fails < MAX_FAILED_ATTEMPTS => ~IsSome(asyncStorage[LOCKOUT_TIMESTAMP]))

\* The call that found the lockout expired and reset it.
C19_Witness ==
  /\ op = "isLockedOut"
  /\ res = FALSE
  /\ calls = <<Call("isLockedOut", FALSE), Call("resetFailedAttempts", TRUE)>>
  /\ asyncStorage[LOCKOUT_TIMESTAMP] = None
  /\ FailedAttempts = 0

\* A call of the last operation threw.
CallThrew == \E i \in DOMAIN calls : ThrowsTypeError(calls[i][1])

\* C20: whatever the backend calls do, register, login, logout and checkAuth
\* never throw: each resolves to its result value, and when a call made in
\* its try block throws, that value is success=false, isAuthenticated=false
\* or false.
C20_NeverThrows ==
  op \in AuthServiceOperations =>
    /\ ~threw
    /\ op \in {"register", "login"} =>
         /\ res.success \in BOOLEAN
         /\ CallThrew => res.success = FALSE /\ IsSome(res.error)
    /\ op = "logout" =>
         /\ res \in BOOLEAN
         /\ CallThrew => res = FALSE
    /\ op = "checkAuth" =>
         /\ res.isAuthenticated \in BOOLEAN
         /\ CallThrew => res.isAuthenticated = FALSE

\* A login during which the counter write was rejected and whose last call
\* threw: the operation resolved all the same.
C20_Witness ==
  /\ op = "login"
  /\ ~threw
  /\ CallThrew
  /\ res.error = <<"An unexpected error occurred during login">>
  /\ Call("resetFailedAttempts", FALSE) \in {calls[i] : i \in DOMAIN calls}

\* The backend calls incrementFailedAttempts can make.
IncrementFaults ==
  FaultsOver({<<"get", FAILED_LOGIN_ATTEMPTS>>, <<"set", FAILED_LOGIN_ATTEMPTS>>,
              <<"set", LOCKOUT_TIMESTAMP>>})

\* A backend call that incrementFailedAttempts makes from the store of the
\* current state fails under F: the read of the counter, the write of the
\* counter, or the write of the timestamp, which is made when the counter
\* was written and the count read plus one is at least 5.
IncrementCallFails(F) ==
  \/ <<"get", FAILED_LOGIN_ATTEMPTS>> \in F
  \/ <<"set", FAILED_LOGIN_ATTEMPTS>> \in F
  \/ /\ <<"set", LOCKOUT_TIMESTAMP>> \in F
     /\ FailedAttempts + 1 >= MAX_FAILED_ATTEMPTS

\* C21: incrementFailedAttempts() returns the stored counter plus 1 and
\* stores it, stamping the lockout timestamp with the clock when the new
\* count is 5 or more, when every backend call succeeds; and returns 0 when
\* a backend call it makes fails.
C21_IncrementReturnsZeroOnFailure ==
  \A F \in IncrementFaults :
    LET r == incrementFailedAttempts(St, now, F)
    IN  /\ F = NoFaults =>
             /\ r.ret = FailedAttempts + 1
             /\ r.S.as[FAILED_LOGIN_ATTEMPTS] = Some(NumberToString(FailedAttempts + 1))
             /\ r.S.as[LOCKOUT_TIMESTAMP] =
                  IF FailedAttempts + 1 >= MAX_FAILED_ATTEMPTS
                  THEN Some(NumberToString(now)) ELSE asyncStorage[LOCKOUT_TIMESTAMP]
        /\ IncrementCallFails(F) => r.ret = 0

\* The backend calls of the four clearing steps of clearAll.
ClearAllFaults ==
  FaultsOver({<<"reset", KC>>, <<"remove", USER_DATA>>,
              <<"remove", PARTIAL_REGISTRATION>>,
              <<"remove", FAILED_LOGIN_ATTEMPTS>>, <<"remove", LOCKOUT_TIMESTAMP>>})

\* C22: whenever clearAll() returns true, no credential, profile, draft,
\* counter or timestamp is stored afterwards; and when one of its clearing
\* steps fails, clearAll() returns false.
C22_ClearAllReportsFailure ==
  \A F \in ClearAllFaults :
    LET r == clearAll(St, F)
    IN  /\ r.ret = TRUE => r.S = EmptyStore
        /\ F # NoFaults => r.ret = FALSE

\* The stored credential and the stored profile, as their reads return them.
StoredCredentials ==
  IF IsSome(keychain)
  THEN Some([email |-> Val(keychain).username, password |-> Val(keychain).password])
  ELSE None

StoredUser == IF IsSome(Profile) THEN Some(JSONParse(Val(Profile))) ELSE None

\* C23: hasSession() returns true exactly when a credential and a profile
\* are stored and both reads return them; checkAuth() returns
\* isAuthenticated=true exactly when its hasSession() call returns true, with
\* the stored profile as user when its own read of the profile returns it
\* and with no user otherwise.
C23_SessionFromStoredData ==
  [][ /\ op' = "hasSession" =>
           /\ res' = /\ IsSome(keychain) /\ calls'[2] = Call("getCredentials", StoredCredentials)
                     /\ IsSome(Profile) /\ calls'[3] = Call("getUserData", StoredUser)
           /\ UNCHANGED <<keychain, asyncStorage>>
      /\ op' = "checkAuth" =>
           /\ calls'[1][1] = "hasSession"
           /\ res'.isAuthenticated = calls'[1][2]
           /\ res'.isAuthenticated => IsSome(keychain) /\ IsSome(Profile)
           /\ ~res'.isAuthenticated => res'.user = None /\ Len(calls') = 1
           /\ res'.isAuthenticated =>
                /\ Len(calls') = 2
                /\ calls'[2][1] = "getUserData"
                /\ res'.user = calls'[2][2]
                /\ res'.user \in {StoredUser, None}
           /\ UNCHANGED <<keychain, asyncStorage>> ]_vars

\* checkAuth found the session and could not read the profile again.
C23_Witness ==
  /\ op = "checkAuth"
  /\ res.isAuthenticated = TRUE
  /\ res.user = None
  /\ IsSome(Profile)
  /\ calls = <<Call("hasSession", TRUE), Call("getUserData", None)>>

\* C24: a login whose email and password equal the stored credential, made
\* while no lockout is in force, returns success=false with 'User
\* data not found' and no user when no profile is stored, and success=true
\* with the stored profile when one is.
C24_MatchingLogin ==
  [][ (op' = "login" /\ keychain = SlotOf(Val(arg')) /\ ~InForce(now)) =>
        /\ ~IsSome(Profile) =>
             /\ res'.success = FALSE
             /\ res'.error = <<"User data not found">>
             /\ res'.user = None
        /\ IsSome(Profile) =>
             /\ res'.success = TRUE
             /\ res'.user = StoredUser ]_vars

\* Each field of the form satisfies the rule validateRegistrationForm tests
\* it against.
FieldValid(data) ==
  [email |-> validateRequired(data.email) /\ validateEmail(data.email),
   password |-> validateRequired(data.password) /\ validatePasswordStrength(data.password),
   confirmPassword |-> validateRequired(data.confirmPassword)
                       /\ data.confirmPassword = data.password,
   firstName |-> validateRequired(data.firstName),
   lastName |-> validateRequired(data.lastName),
   phoneNumber |-> validateRequired(data.phoneNumber) /\ validatePhoneNumber(data.phoneNumber)]

\* The errors object has an entry for exactly the fields that fail their
\* rule, and hasFormErrors is false exactly when every field is valid.
ErrorsMatchRules(data, errors) ==
  /\ \A f \in DOMAIN FieldValid(data) : (f \in DOMAIN errors) <=> ~FieldValid(data)[f]
  /\ (hasFormErrors(errors) = FALSE) <=> \A f \in DOMAIN FieldValid(data) : FieldValid(data)[f]

\* C29 (as stated): validateRegistrationForm reports an error for a field
\* exactly when the field fails its rule, hasFormErrors of the result is
\* false iff every field is valid, and every non-empty confirmPassword that
\* differs from password gets the message 'Passwords do not match'.
C29_NonEmptyMismatch ==
  op = "validateRegistrationForm" =>
    LET data == Val(arg)
    IN  /\ ErrorsMatchRules(data, res)
        /\ (Len(data.confirmPassword) > 0 /\ data.confirmPassword # data.password)
             => /\ "confirmPassword" \in DOMAIN res
                /\ res.confirmPassword = "Passwords do not match"

\* C29 (amended): validateRegistrationForm reports an error for a field
\* exactly when the field fails its rule, hasFormErrors of the result is
\* false iff every field is valid, and every confirmPassword that is not
\* blank and differs from password gets the message 'Passwords do not
\* match'; a confirmPassword of whitespace only gets 'Please confirm your
\* password'.
C29_ErrorsExactlyForInvalidFields ==
  op = "validateRegistrationForm" =>
    LET data == Val(arg)
    IN  /\ ErrorsMatchRules(data, res)
        /\ (validateRequired(data.confirmPassword) /\ data.confirmPassword # data.password)
             => /\ "confirmPassword" \in DOMAIN res
                /\ res.confirmPassword = "Passwords do not match"
        /\ (Len(data.confirmPassword) > 0 /\ ~validateRequired(data.confirmPassword))
             => /\ "confirmPassword" \in DOMAIN res
                /\ res.confirmPassword = "Please confirm your password"

\* A form whose only fault is a confirmPassword of different, non-blank
\* characters.
C29_Witness ==
  /\ op = "validateRegistrationForm"
  /\ DOMAIN res = {"confirmPassword"}
  /\ res.confirmPassword = "Passwords do not match"
  /\ validatePasswordStrength(Val(arg).confirmPassword)

\* C30: no false lockout.  At every reachable state isLockedOut() returns
\* true only if at least 5 logins have failed since the last matching login,
\* the last expiry reset and the last full wipe, and a login is refused as
\* locked out only then; so with fewer than 5 such failures (4 failures, a
\* matching login, 4 more failures) the account is unlocked.
C30_NoFalseLockout ==
  /\ [](isLockedOut(St, now, NoFaults).ret = TRUE => fails >= MAX_FAILED_ATTEMPTS)
  /\ [][(op' = "isLockedOut" /\ res' = TRUE) => fails >= MAX_FAILED_ATTEMPTS]_vars
  /\ [][(op' = "login" /\ res'.lockedOut) => fails' >= MAX_FAILED_ATTEMPTS]_vars

\* isLockedOut() has returned true after five failures that followed a
\* matching login of the registered user.
C30_Witness ==
  /\ op = "isLockedOut"
  /\ res = TRUE
  /\ fails = MAX_FAILED_ATTEMPTS
  /\ IsSome(keychain)

\* The suspended functions whose awaited call is  at.
InFlight(at) == {i \in 1..Len(pending) : pending[i].at = at}

\* C26: at most one AuthService.login call and at most one
\* AuthService.register call started by a screen's onSubmit is in flight at
\* any time.
C26_OneSubmissionInFlight ==
  /\ Cardinality(InFlight("login")) <= 1
  /\ Cardinality(InFlight("register")) <= 1

\* The checkLockout calls of the poll that have not returned.
Polls(p) == {i \in 1..Len(p) : p[i].fn = "checkLockout"}

\* C27: while LoginScreen is unmounted no checkLockout call is started and
\* the isLockedOut and remainingTime state of the screen does not change,
\* whatever the checkLockout calls still in flight resolve to.
C27_PollCancelledOnUnmount ==
  [][(~loginScreen.mounted /\ ~loginScreen'.mounted)
       => /\ Cardinality(Polls(pending')) <= Cardinality(Polls(pending))
          /\ loginScreen'.isLockedOut = loginScreen.isLockedOut
          /\ loginScreen'.remainingTime = loginScreen.remainingTime]_vars

\* A checkLockout call of an unmounted LoginScreen has just learnt that the
\* account is locked, and the screen state still says it is not.
C27_Witness ==
  /\ ~loginScreen.mounted
  /\ ~loginScreen.interval
  /\ ~loginScreen.isLockedOut
  /\ op = "isLockedOut"
  /\ res = TRUE
  /\ \E i \in Polls(pending) : pending[i].stale /\ pending[i].at = "getRemainingLockoutTime"

\* C31: a login made while a lockout timestamp younger than 15 minutes is
\* stored never calls getCredentials (so never compares credentials) and
\* never returns success=true, whichever backend calls fail during it.
C31_LockoutUnderFaults ==
  [][ (op' = "login" /\ InForce(now)) =>
        /\ \A i \in 1..Len(calls') : calls'[i][1] # "getCredentials"
        /\ res'.success = FALSE ]_vars

\* C33: whenever login returns lockedOut=true, the remainingTime it returns
\* is between 1 and 900 seconds.
C33_RemainingTimeInRange ==
  (op = "login" /\ res.lockedOut = TRUE) =>
    /\ IsSome(res.remainingTime)
    /\ Val(res.remainingTime) >= 1
    /\ Val(res.remainingTime) <= LOCKOUT_DURATION \div MsPerSecond

\* C34: login and checkAuth leave the stored credential and the stored user
\* profile as they were, whatever their arguments, outcome and failing
\* backend calls; a login that returns success=false changes no key other
\* than the failed-attempt counter and the lockout timestamp.
C34_LoginAndCheckAuthFrame ==
  [][ (op' \in {"login", "checkAuth"}) =>
        /\ keychain' = keychain
        /\ asyncStorage'[USER_DATA] = asyncStorage[USER_DATA]
        /\ (op' = "login" /\ res'.success = FALSE) =>
             \A k \in STORAGE_KEYS \ {FAILED_LOGIN_ATTEMPTS, LOCKOUT_TIMESTAMP} :
               asyncStorage'[k] = asyncStorage[k] ]_vars

\* A failed login of a registered user with a stored profile and a stored
\* draft has just incremented the counter.
C34_Witness ==
  /\ op = "login"
  /\ res.success = FALSE
  /\ IsSome(keychain)
  /\ IsSome(Profile)
  /\ IsSome(Draft)
  /\ FailedAttempts > 0

\* The failed-attempt counter read from AsyncStorage contents as.
CounterOf(as) ==
  IF IsSome(as[FAILED_LOGIN_ATTEMPTS]) THEN ParseInt(Val(as[FAILED_LOGIN_ATTEMPTS])) ELSE 0

\* C35: after a login that returns success=false the failed-attempt counter
\* is at least what it was before the call, and the session (a stored
\* credential together with a stored profile) is what it was before.
C35_FailedLoginNeverResets ==
  [][ (op' = "login" /\ res'.success = FALSE) =>
        /\ CounterOf(asyncStorage') >= CounterOf(asyncStorage)
        /\ (IsSome(keychain') /\ IsSome(asyncStorage'[USER_DATA]))
             <=> (IsSome(keychain) /\ IsSome(asyncStorage[USER_DATA])) ]_vars

\* No operation of the AuthProvider is in flight.
ProviderIdle ==
  \A i \in 1..Len(pending) : pending[i].at \notin {"checkAuth", "register", "login", "logout"}

\* C36: whenever no AuthProvider operation is in flight, the provider's
\* isAuthenticated flag equals what AuthService.checkAuth() reports from the
\* store; so after the provider's logout a restart finds the user
\* unauthenticated.
C36_FlagMatchesStore ==
  ProviderIdle =>
    authState.isAuthenticated = checkAuth(St, now, NoFaults).res.isAuthenticated

\* C37: a restart, and the checkAuth the provider runs at the launch that
\* follows, change neither the stored failed-attempt counter nor the stored
\* lockout timestamp, so isLockedOut() and the number of attempts left
\* before lockout are the same after as before.
C37_LockoutSurvivesRestart ==
  [][ (op' \in {"restart", "checkAuth"}) =>
        /\ asyncStorage'[FAILED_LOGIN_ATTEMPTS] = asyncStorage[FAILED_LOGIN_ATTEMPTS]
        /\ asyncStorage'[LOCKOUT_TIMESTAMP] = asyncStorage[LOCKOUT_TIMESTAMP]
        /\ isLockedOut([kc |-> keychain', as |-> asyncStorage'], now', NoFaults).ret
             = isLockedOut(St, now, NoFaults).ret
        /\ MAX_FAILED_ATTEMPTS - CounterOf(asyncStorage')
             = MAX_FAILED_ATTEMPTS - CounterOf(asyncStorage) ]_vars

\* The app has been launched again during a lockout and its checkAuth has
\* returned: the account is still locked.
C37_Witness ==
  /\ op = "checkAuth"
  /\ ProviderIdle
  /\ CounterOf(asyncStorage) = MAX_FAILED_ATTEMPTS
  /\ isLockedOut(St, now, NoFaults).ret = TRUE

\* A login in flight whose increment of the counter has been written.
IncrementInFlight ==
  \E i \in 1..Len(pending) : pending[i].fn = "login" /\ Val(pending[i].data).written

\* C32: a step of the poll never removes a lockout timestamp younger than 15
\* minutes, and while the store holds no expired lockout it never changes the
\* counter that a login in flight has incremented.
C32_PollKeepsLockoutState ==
  [][ (op' = "await" /\ Val(arg')[1] = "checkLockout") =>
        /\ InForce(now) => asyncStorage'[LOCKOUT_TIMESTAMP] = asyncStorage[LOCKOUT_TIMESTAMP]
        /\ (IncrementInFlight /\ ~Expired(now))
             => asyncStorage'[FAILED_LOGIN_ATTEMPTS] = asyncStorage[FAILED_LOGIN_ATTEMPTS] ]_vars

====
